---- MODULE Spec2Model ----
(***************************************************************************)
(* AgriShield chat exchange: the chat client (ChatWindow.tsx, with the     *)
(* location prop of ChatPage.tsx) and the /api/chat backend (server.js).   *)
(*                                                                         *)
(* Strings are sequences of tokens, so that trimming, concatenation,       *)
(* number rendering and substring search are computed, not assumed.        *)
(* Three specifications share the variables:                               *)
(*   Spec        the chat client, the network and backend as environment   *)
(*   SpecServer  the /api/chat handler, requests and upstream as inputs    *)
(*   SpecPrompt  createSystemPrompt as a pure function of its inputs       *)
(***************************************************************************)
EXTENDS Integers, Sequences, FiniteSets, TLC

VARIABLES
  \* ---- ChatWindow.tsx state
  messages,       \* useState<Message[]>: the transcript
  inputValue,     \* useState(""): the input box
  isTyping,       \* useState(false): the composing indicator
  language,       \* useState("English")
  attachedFiles,  \* useState<AttachedFile[]>: references into heap
  heap,           \* the reachable AttachedFile objects, by reference
  readers,        \* FileReaders started and not yet loaded: their objects' references
  location,       \* ChatPage.tsx useState: the location prop
  issued,         \* how many fetches have been issued so far
  pending,        \* the fetches in flight: [id, body], promise not settled
  lastOp,         \* the send entry point that ran last and returned early, "other" otherwise
  \* ---- server.js state
  handlers,       \* one record per /api/chat invocation
  upstream,       \* every groq.chat.completions.create call: its messages
  alive,          \* the node process is running
  zone,           \* the TZ of the node process, hours from UTC
  \* ---- createSystemPrompt under test
  pIn,            \* the (location, date, time zone) drawn
  pOut            \* the prompt composed from pIn, <<>> before the call

clientVars == <<messages, inputValue, isTyping, language, attachedFiles, heap,
                readers, location, issued, pending, lastOp>>
serverVars == <<handlers, upstream, alive, zone>>
promptVars == <<pIn, pOut>>
vars == <<clientVars, serverVars, promptVars>>

(***************************************************************************)
(* Bounds                                                                  *)
(***************************************************************************)
MaxSends == 2      \* accepted sends per session
MaxReqs  == 2      \* /api/chat requests the backend receives

(***************************************************************************)
(* JavaScript values                                                       *)
(***************************************************************************)
\* A number or undefined; numbers are coordinates in tenths of a degree.
Undef == [def |-> FALSE, v |-> 0]
Num(n) == [def |-> TRUE, v |-> n]

\* ToBoolean of a number-or-undefined: undefined, 0 (and NaN) are falsy.
Truthy(c) == c.def /\ c.v # 0

NullLocation == [isNull |-> TRUE, lat |-> Undef, lon |-> Undef]
Loc(la, lo) == [isNull |-> FALSE, lat |-> la, lon |-> lo]

\* The value undefined where a string is expected.
JsUndefined == <<"#undefined">>

Digit(d) == CASE d = 0 -> "0" [] d = 1 -> "1" [] d = 2 -> "2" [] d = 3 -> "3"
              [] d = 4 -> "4" [] d = 5 -> "5" [] d = 6 -> "6" [] d = 7 -> "7"
              [] d = 8 -> "8" [] d = 9 -> "9"

RECURSIVE NatToString(_)
NatToString(n) == IF n < 10 THEN <<Digit(n)>>
                  ELSE NatToString(n \div 10) \o <<Digit(n % 10)>>

\* Number::toString of a value given in tenths: sign, integer part, and the
\* fraction only when it is not zero.
NumberToString(t) ==
  LET a == IF t < 0 THEN -t ELSE t
      s == IF t < 0 THEN <<"-">> ELSE <<>>
      f == IF a % 10 = 0 THEN <<>> ELSE <<".", Digit(a % 10)>>
  IN s \o NatToString(a \div 10) \o f

\* Template-literal interpolation of a number-or-undefined.
CoordToString(c) == IF c.def THEN NumberToString(c.v) ELSE <<"undefined">>

\* Template-literal interpolation of a string-or-undefined.
StrToString(s) == IF s = JsUndefined THEN <<"undefined">> ELSE s

\* String.prototype.trim over the tokens: leading and trailing blanks go.
RECURSIVE TrimStart(_)
TrimStart(s) == IF s # <<>> /\ Head(s) = " " THEN TrimStart(Tail(s)) ELSE s
RECURSIVE TrimEnd(_)
TrimEnd(s) == IF s # <<>> /\ s[Len(s)] = " "
              THEN TrimEnd(SubSeq(s, 1, Len(s) - 1)) ELSE s
Trim(s) == TrimEnd(TrimStart(s))

\* sub occurs in s as a contiguous run of tokens (String.prototype.includes).
Contains(s, sub) ==
  \E i \in 0..(Len(s) - Len(sub)) : SubSeq(s, i + 1, i + Len(sub)) = sub

IsPrefix(s, t) == Len(s) <= Len(t) /\ SubSeq(t, 1, Len(s)) = s

RECURSIVE Join(_, _)
Join(ss, sep) == IF ss = <<>> THEN <<>>
                 ELSE IF Len(ss) = 1 THEN ss[1]
                 ELSE ss[1] \o sep \o Join(Tail(ss), sep)

(***************************************************************************)
(* Chat client: ChatWindow.tsx                                             *)
(***************************************************************************)
\* What the user can type into the input box.
InputTexts == { <<>>, <<" ">>, <<" ", "rice", " ">> }

\* The first of the three quick prompts; the other two differ in text only.
SUGGESTED_QUESTIONS == { <<"Best flood-resistant rice?">> }

\* The language buttons the user presses here; 'Ta' behaves like 'Hi'.
Languages == { <<"English">>, <<"Hindi">> }

\* The File objects the picker can hand over: name, MIME type, content.
Files == { [name |-> <<"leaf.png">>, type |-> <<"image/", "png">>, data |-> "AAAA"],
           [name |-> <<"soil.pdf">>, type |-> <<"application/", "pdf">>, data |-> "BBBB"] }

\* A FileList: the picker is `multiple`, one or several files per selection.
FileLists == { <<f>> : f \in Files } \cup
             { <<f, g>> : <<f, g>> \in { x \in Files \X Files : x[1] # x[2] } }

\* Where geolocation can put the user (tenths of a degree).
Positions == { Loc(Num(285), Num(772)) }

\* FileReader.readAsDataURL
DataURL(file) == <<"data:">> \o file.type \o <<";base64,", file.data>>

initialMessages ==
  << [id |-> <<"1">>,
      text |-> <<"Namaste! I'm your AgriShield AI. I can analyze your soil, predict weather risks, and suggest crops. How can I help your farm today?">>,
      isBot |-> TRUE,
      attachments |-> <<>>] >>

FallbackText ==
  <<"I'm having trouble connecting to the satellite. Please check your internet connection.">>

\* How a fetch can end: the promise rejects; it resolves with a non-success
\* status (the backend's 500 body); it resolves with 200 and a body that is
\* not JSON; it resolves with 200 and the backend's { response }.
Outcomes ==
  { [kind |-> "network", ok |-> FALSE, json |-> FALSE, response |-> <<>>,
     details |-> <<>>],
    [kind |-> "status", ok |-> FALSE, json |-> TRUE, response |-> <<>>,
     details |-> <<"quota exceeded">>],
    [kind |-> "body", ok |-> TRUE, json |-> FALSE, response |-> <<>>,
     details |-> <<>>],
    [kind |-> "ok", ok |-> TRUE, json |-> TRUE, response |-> <<"Plant Swarna-Sub1.">>,
     details |-> <<>>] }

FailureKinds == {"network", "status", "body"}

\* Line 99 as it would read without the trim().
AcceptedUntrimmed(text, staged) == text # <<>> \/ Len(staged) # 0

\* handleSendMessage line 99, negated: the send goes ahead.
Accepted(text, staged) == ~(Trim(text) = <<>> /\ Len(staged) = 0)

\* The send Button's `disabled` attribute, line 326.
SendDisabled == (Trim(inputValue) = <<>> /\ Len(attachedFiles) = 0) \/ isTyping

\* The suggested questions are rendered, line 201.
SuggestionsShown == Len(messages) <= 2 /\ ~isTyping

\* Lines 101-107 as they would read without the attachments of line 106.
UserMessageWithoutAttachments(text, staged) ==
  [id |-> <<"#now">>, text |-> Trim(text), isBot |-> FALSE, attachments |-> <<>>]

\* Lines 101-107: the optimistic user Message.
UserMessage(text, staged) ==
  [id |-> <<"#now">>, text |-> Trim(text), isBot |-> FALSE,
   attachments |-> IF Len(staged) > 0 THEN staged ELSE <<>>]

\* Lines 115-119 as they would read without the test of line 118 for an
\* empty text.
MessageTextAlwaysNewline(text, staged) ==
  LET t == Trim(text)
      fileNames == Join([i \in 1..Len(staged) |-> heap[staged[i]].file.name], <<", ">>)
      suffix == <<"[Attached files: ">> \o fileNames \o <<"]">>
  IN IF Len(staged) > 0 THEN t \o <<"\n">> \o suffix ELSE t

\* Lines 115-119: the text sent to the backend.
MessageText(text, staged) ==
  LET t == Trim(text)
      fileNames == Join([i \in 1..Len(staged) |-> heap[staged[i]].file.name], <<", ">>)
      suffix == <<"[Attached files: ">> \o fileNames \o <<"]">>
  IN IF Len(staged) > 0
     THEN (IF t # <<>> THEN t \o <<"\n">> \o suffix ELSE suffix)
     ELSE t

\* Lines 125-130: the JSON body.
RequestBody(text, staged) ==
  [message |-> MessageText(text, staged), language |-> language,
   location |-> location, date |-> <<"#nowISO">>]

\* Lines 137-144: the try block ran to its end.
TryReplies(o) ==
  << [id |-> <<"#now", "-bot">>, text |-> o.response, isBot |-> TRUE,
      attachments |-> <<>>] >>

\* The catch block as it would read if it showed the backend's details, and
\* as it would read if it swallowed the error.
CatchRepliesDetails(o) ==
  << [id |-> <<"#now", "-error">>,
      text |-> IF o.details # <<>> THEN o.details ELSE FallbackText,
      isBot |-> TRUE, attachments |-> <<>>] >>
CatchRepliesNone(o) == <<>>

\* Lines 146-153: the catch block.
CatchReplies(o) ==
  << [id |-> <<"#now", "-error">>, text |-> FallbackText, isBot |-> TRUE,
      attachments |-> <<>>] >>

\* Lines 121-157: what the settled fetch appends. fetch rejecting, a status
\* that is not ok, and json() rejecting all throw inside the try.
Replies(o) == IF o.kind # "network" /\ o.ok /\ o.json THEN TryReplies(o)
              ELSE CatchReplies(o)

\* The transcript as rendered: every attachment reference followed.
Transcript ==
  [k \in 1..Len(messages) |->
     [messages[k] EXCEPT !.attachments = [i \in 1..Len(@) |-> heap[@[i]]]]]

\* The last handler was not a send that returned early.
Other == [op |-> "other", res |-> "done"]

Unserver == UNCHANGED <<serverVars, promptVars>>

TypeInput(v) ==
  /\ inputValue' = v
  /\ lastOp' = Other
  /\ UNCHANGED <<messages, isTyping, language, attachedFiles, heap, readers,
                 location, issued, pending>>
  /\ Unserver

SetLanguage(l) ==
  /\ language' = l
  /\ lastOp' = Other
  /\ UNCHANGED <<messages, inputValue, isTyping, attachedFiles, heap, readers,
                 location, issued, pending>>
  /\ Unserver

\* ChatPage.tsx: getCurrentPosition's success callback, once per page load.
GeoSuccess(p) ==
  /\ location = NullLocation
  /\ location' = p
  /\ lastOp' = Other
  /\ UNCHANGED <<messages, inputValue, isTyping, language, attachedFiles, heap,
                 readers, issued, pending>>
  /\ Unserver

\* The references held by the transcript.
MessageRefs(msgs) == UNION { { msgs[k].attachments[i] : i \in 1..Len(msgs[k].attachments) }
                             : k \in 1..Len(msgs) }
SeqRefs(staged) == { staged[i] : i \in 1..Len(staged) }

\* The objects of h still reachable from the references `live`; the others
\* are garbage and no code can observe them.
Reachable(h, live) == [a \in DOMAIN h \cap live |-> h[a]]

\* handleFileSelect: one AttachedFile object per file, a FileReader per image.
\* An object is referred to by its file's name; a file can be picked again
\* once the object of its earlier pick is gone.
HandleFileSelect(fs) ==
  /\ \A i \in 1..Len(fs) : fs[i].name \notin DOMAIN heap
  /\ LET isImage(f) == IsPrefix(<<"image/">>, f.type)
         attachment(f) == [file |-> f,
                           type |-> IF isImage(f) THEN "image" ELSE "document",
                           preview |-> <<>>]
         newAttachments == [i \in 1..Len(fs) |-> fs[i].name]
     IN /\ heap' = [a \in DOMAIN heap \cup SeqRefs(newAttachments) |->
                      IF a \in DOMAIN heap THEN heap[a]
                      ELSE attachment(CHOOSE f \in SeqRefs(fs) : f.name = a)]
        /\ readers' = readers \cup { fs[i].name : i \in {j \in 1..Len(fs) : isImage(fs[j])} }
        /\ attachedFiles' = attachedFiles \o newAttachments
  /\ lastOp' = Other
  /\ UNCHANGED <<messages, inputValue, isTyping, language, location, issued,
                 pending>>
  /\ Unserver

\* reader.onload: writes the preview into the AttachedFile object itself,
\* wherever that object is by now, then re-sets the staging area to a copy.
ReaderOnload(a) ==
  /\ a \in readers
  /\ readers' = readers \ {a}
  /\ attachedFiles' = attachedFiles
  /\ heap' = Reachable([heap EXCEPT ![a].preview = DataURL(heap[a].file)],
                       SeqRefs(attachedFiles) \cup MessageRefs(messages) \cup readers')
  /\ lastOp' = Other
  /\ UNCHANGED <<messages, inputValue, isTyping, language, location, issued,
                 pending>>
  /\ Unserver

RemoveAttachment(index) ==
  /\ index \in 1..Len(attachedFiles)
  /\ attachedFiles' = [i \in 1..(Len(attachedFiles) - 1) |->
                         IF i < index THEN attachedFiles[i] ELSE attachedFiles[i + 1]]
  /\ heap' = Reachable(heap, SeqRefs(attachedFiles') \cup MessageRefs(messages)
                             \cup readers)
  /\ lastOp' = Other
  /\ UNCHANGED <<messages, inputValue, isTyping, language, readers,
                 location, issued, pending>>
  /\ Unserver

\* handleSendMessage up to the await of fetch.
HandleSendMessage(text, entry) ==
  IF ~Accepted(text, attachedFiles)
  THEN /\ lastOp' = [op |-> entry, res |-> "noop"]
       /\ UNCHANGED <<messages, inputValue, isTyping, language, attachedFiles,
                      heap, readers, location, issued, pending>>
  ELSE /\ issued < MaxSends
       /\ messages' = Append(messages, UserMessage(text, attachedFiles))
       /\ inputValue' = <<>>
       /\ attachedFiles' = <<>>
       /\ isTyping' = TRUE
       /\ issued' = issued + 1
       /\ pending' = pending \cup {[id |-> issued + 1,
                                     body |-> RequestBody(text, attachedFiles)]}
       /\ lastOp' = Other
       /\ UNCHANGED <<language, heap, readers, location>>

SendButton ==
  /\ ~SendDisabled
  /\ HandleSendMessage(inputValue, "sendButton")
  /\ Unserver

\* The Input's onKeyDown, lines 300-305: Enter without Shift reaches
\* handleSendMessage whatever isTyping is; the Input is never disabled.
EnterKey ==
  /\ HandleSendMessage(inputValue, "enterKey")
  /\ Unserver

SuggestedQuestion(q) ==
  /\ SuggestionsShown
  /\ HandleSendMessage(q, "suggestedQuestion")
  /\ Unserver

\* The fetch of request r settles: the rest of handleSendMessage runs.
Resolve(r, o) ==
  /\ r \in pending
  /\ pending' = pending \ {r}
  /\ messages' = messages \o Replies(o)
  /\ isTyping' = FALSE
  /\ lastOp' = Other
  /\ UNCHANGED <<inputValue, language, attachedFiles, heap, readers, location,
                 issued>>
  /\ Unserver

(***************************************************************************)
(* Prompt composer: server.js createSystemPrompt                           *)
(***************************************************************************)
\* The `date` of a request body: absent, null, "", a string that is no date,
\* or an ISO-8601 instant YYYY-MM-DDTHH:00:00.000Z given by its fields.
NoDate(k) == [kind |-> k, y |-> 0, m |-> 0, d |-> 0, h |-> 0]
Iso(y, m, d, h) == [kind |-> "iso", y |-> y, m |-> m, d |-> d, h |-> h]

\* ToBoolean(date): undefined, null and "" are falsy, other strings truthy.
DateTruthy(date) == date.kind \in {"garbage", "iso"}

IsLeap(y) == (y % 4 = 0 /\ y % 100 # 0) \/ y % 400 = 0
DaysInMonth(y, m) == IF m = 2 THEN (IF IsLeap(y) THEN 28 + 1 ELSE 28)
                     ELSE IF m \in {4, 6, 9, 11} THEN 30 ELSE 31

\* Date.parse: the fields must name an instant, else the time value is NaN.
Parseable(date) ==
  /\ date.kind = "iso"
  /\ date.m \in 1..12
  /\ date.d \in 1..DaysInMonth(date.y, date.m)
  /\ date.h \in 0..23

\* Days since 1970-01-01 of a civil date (proleptic Gregorian calendar).
DaysFromCivil(y, m, d) ==
  LET yy  == IF m <= 2 THEN y - 1 ELSE y
      era == yy \div 400
      yoe == yy - era * 400
      mp  == (m + 9) % 12
      doy == (153 * mp + 2) \div 5 + d - 1
      doe == yoe * 365 + yoe \div 4 - yoe \div 100 + doy
  IN era * 146097 + doe - 719468

CivilFromDays(z) ==
  LET zz  == z + 719468
      era == zz \div 146097
      doe == zz - era * 146097
      yoe == (doe - doe \div 1460 + doe \div 36524 - doe \div 146096) \div 365
      doy == doe - (365 * yoe + yoe \div 4 - yoe \div 100)
      mp  == (5 * doy + 2) \div 153
      d   == doy - (153 * mp + 2) \div 5 + 1
      m   == IF mp < 10 THEN mp + 3 ELSE mp - 9
      y   == yoe + era * 400
  IN [y |-> IF m <= 2 THEN y + 1 ELSE y, m |-> m, d |-> d]

WeekdayNames == <<"Sunday", "Monday", "Tuesday", "Wednesday", "Thursday",
                  "Friday", "Saturday">>
MonthNames == <<"January", "February", "March", "April", "May", "June", "July",
                "August", "September", "October", "November", "December">>

\* new Date(date).toLocaleDateString('en-US', { weekday: 'long', year:
\* 'numeric', month: 'long', day: 'numeric' }) in a zone `offset` hours from
\* UTC: the local calendar day of the instant, "Invalid Date" for NaN.
ToLocaleDateString(date, offset) ==
  IF ~Parseable(date) THEN <<"Invalid Date">>
  ELSE LET hours == DaysFromCivil(date.y, date.m, date.d) * 24 + date.h + offset
           day   == hours \div 24
           c     == CivilFromDays(day)
       IN <<WeekdayNames[((day + 4) % 7) + 1], ", ", MonthNames[c.m], " ">>
          \o NatToString(c.d) \o <<", ">> \o NatToString(c.y)

NotAvailable == <<"Not available">>
LocationNotAvailable == <<"User's location is not available.">>
LocationLabel == <<"User's Approximate Location (Latitude, Longitude): ">>

\* Line 18.
FormattedDate(date, offset) ==
  IF DateTruthy(date) THEN ToLocaleDateString(date, offset) ELSE NotAvailable

\* Lines 20-23 as they would read with a test for presence instead of
\* truthiness, and with the coordinates withheld from the prompt.
LocationInfoIfDefined(loc) ==
  IF ~loc.isNull /\ loc.lat.def /\ loc.lon.def
  THEN LocationLabel \o CoordToString(loc.lat) \o <<", ">> \o CoordToString(loc.lon)
  ELSE LocationNotAvailable
LocationInfoWithheld(loc) == LocationNotAvailable

\* Lines 20-23.
LocationInfo(loc) ==
  IF ~loc.isNull /\ Truthy(loc.lat) /\ Truthy(loc.lon)
  THEN LocationLabel \o CoordToString(loc.lat) \o <<", ">> \o CoordToString(loc.lon)
  ELSE LocationNotAvailable

DateLabel == "    Current Date: "
PrivacyRule == "  **PRIVACY RULE:** You MUST NOT repeat the user's latitude and longitude coordinates in your response. Refer to their location in general terms only (e.g., \"in your area,\" \"for your region,\" \"given your local conditions\")."

\* Lines 25-44: the template. Every digit of the template is a token of its
\* own, as the digits of the interpolated values are.
Template(formattedDate, locationInfo) ==
  << "\n    You are the \"AgriShield AI Farming Assistant,\" a specialized AI expert for Indian farmers. Your persona is confident, knowledgeable, and highly practical.\n\n    --- IMPORTANT CONTEXT (FOR YOUR USE ONLY) ---",
     "\n", DateLabel >>
  \o formattedDate
  \o << "\n", "    " >>
  \o locationInfo
  \o << "\n",
        "    You MUST use this location and date to provide highly relevant, localized, and timely advice.\n    ---\n\n    --- RESPONSE MANDATES ---\n    ",
        "1", ".", PrivacyRule, "\n    ",
        "2", ".", "  **Be Specific and Actionable:** When asked for a recommendation, you MUST provide a list of specific, named crop varieties first. Do NOT give generic advice.", "\n    ",
        "3", ".", "  **Expert First, Disclaimer Second:** Provide your expert recommendations directly. Only after giving specific advice can you add a concluding sentence suggesting the user consult a local extension office.", "\n    ",
        "4", ".", "  **Use Clear Formatting:** Always use bullet points (*) for lists and bold text (**) for important terms.", "\n    ",
        "5", ".", "  **Be Proactive:** End your responses by asking a follow-up question to encourage further interaction.",
        "\n    ---\n     \n    --- CRITICAL LANGUAGE RULE ---\n    You must respond ONLY in the language the user has selected. Do not mix languages.\n  " >>

createSystemPrompt(loc, date, offset) ==
  Template(FormattedDate(date, offset), LocationInfo(loc))

\* The inputs drawn for createSystemPrompt.
Coords == { Undef, Num(0), Num(285), Num(-157), Num(20) }
PromptLocations == { NullLocation } \cup { Loc(la, lo) : la \in Coords, lo \in Coords }
PromptDates == { NoDate("undefined"), NoDate("null"), NoDate("empty"),
                 NoDate("garbage"),
                 Iso(2024, 6, 1, 0), Iso(2024, 2, 29, 23), Iso(2023, 12, 31, 20),
                 Iso(2024, 13, 1, 0) }
\* The TZ of the node process, hours from UTC.
TimeZones == { -8, 0, 5 }

PromptInit ==
  /\ pIn \in [location : PromptLocations, date : PromptDates]
  /\ pOut = <<>>
  /\ zone \in TimeZones

Compose ==
  /\ pOut = <<>>
  /\ pOut' = createSystemPrompt(pIn.location, pIn.date, zone)
  /\ UNCHANGED <<pIn, clientVars, serverVars>>

(***************************************************************************)
(* Backend: server.js app.post('/api/chat')                                *)
(***************************************************************************)
\* req.body after express.json(): undefined when no JSON body was parsed,
\* else an object whose fields may be missing.
NoBody == [defined |-> FALSE, message |-> JsUndefined, language |-> JsUndefined,
           location |-> NullLocation, date |-> NoDate("undefined")]
Body(msg, lang, loc, date) ==
  [defined |-> TRUE, message |-> msg, language |-> lang, location |-> loc,
   date |-> date]

Bodies ==
  { NoBody,
    Body(<<"Best flood-resistant rice?">>, <<"English">>, NullLocation, Iso(2024, 6, 1, 0)),
    Body(<<"Will it rain tomorrow?">>, <<"Tamil">>, Loc(Num(285), Num(772)), Iso(2024, 6, 1, 0)),
    Body(<<"Current Wheat prices?">>, <<"Hindi">>, Loc(Num(0), Num(772)), NoDate("garbage")),
    Body(JsUndefined, JsUndefined, NullLocation, NoDate("undefined")) }

\* How groq.chat.completions.create settles: it rejects with an Error; it
\* resolves with a completion whose `choices` is missing, is empty, holds
\* an empty content, or holds the model's text.
UpstreamResults ==
  { [kind |-> "rejected", message |-> <<"quota exceeded">>, choices |-> "none",
     content |-> <<>>],
    [kind |-> "resolved", message |-> <<>>, choices |-> "undefined", content |-> <<>>],
    [kind |-> "resolved", message |-> <<>>, choices |-> "empty", content |-> <<>>],
    [kind |-> "resolved", message |-> <<>>, choices |-> "one", content |-> <<>>],
    [kind |-> "resolved", message |-> <<>>, choices |-> "one",
     content |-> <<"Plant Swarna-Sub1.">>] }

\* No upstream call was made, or it has not settled yet.
NotCalled == [kind |-> "none", message |-> <<>>, choices |-> "none", content |-> <<>>]

DestructureError ==
  <<"Cannot destructure property 'message' of 'req.body' as it is undefined.">>
ChoicesError == <<"Cannot read properties of undefined (reading '0')">>

\* The array as it would be if the handler kept the earlier user turns.
ScaffoldWithHistory(body) ==
  [i \in 1..Len(upstream) |-> upstream[i].messages[4]] \o
  << [role |-> "system",
      content |-> createSystemPrompt(body.location, body.date, zone)],
     [role |-> "user",
      content |-> <<"I am an Indian Farmer. My preferred language is: ">>
                  \o StrToString(body.language) \o <<".">>],
     [role |-> "assistant",
      content |-> <<"Namaste! I am ready to help you in ">>
                  \o StrToString(body.language) \o <<".">>],
     [role |-> "user", content |-> body.message] >>

\* Lines 56-73: the array built for this request, from this request only.
Scaffold(body) ==
  << [role |-> "system",
      content |-> createSystemPrompt(body.location, body.date, zone)],
     [role |-> "user",
      content |-> <<"I am an Indian Farmer. My preferred language is: ">>
                  \o StrToString(body.language) \o <<".">>],
     [role |-> "assistant",
      content |-> <<"Namaste! I am ready to help you in ">>
                  \o StrToString(body.language) \o <<".">>],
     [role |-> "user", content |-> body.message] >>

\* Lines 83-85: the text taken from a resolved completion and the reply.
\* Reading choices[0] of a missing `choices` throws.
CompletionThrows(u) == u.kind = "resolved" /\ u.choices = "undefined"
CompletionText(u) ==
  IF u.choices = "one" /\ u.content # <<>> THEN u.content
  ELSE <<"No response generated">>
Success(text) ==
  [sent |-> << [status |-> 200, response |-> text, error |-> <<>>,
                details |-> <<>>] >>,
   running |-> TRUE]

\* The handler without its try/catch: the rejection of the async handler
\* is unhandled, nothing is sent and node exits.
Uncaught(message) == [sent |-> <<>>, running |-> FALSE]

\* Lines 87-91: the catch block.
Catch(message) ==
  [sent |-> << [status |-> 500, response |-> <<>>,
                error |-> <<"Failed to get response from AI">>,
                details |-> message] >>,
   running |-> TRUE]

\* A request arrives: the handler runs up to the await of the upstream call.
Receive(body) ==
  /\ alive
  /\ Len(handlers) < MaxReqs
  /\ IF ~body.defined
     THEN LET r == Catch(DestructureError)
          IN /\ handlers' = Append(handlers,
                  [body |-> body, state |-> "done", settled |-> NotCalled,
                   responses |-> r.sent])
             /\ alive' = r.running
             /\ UNCHANGED upstream
     ELSE /\ handlers' = Append(handlers,
               [body |-> body, state |-> "awaiting", settled |-> NotCalled,
                responses |-> <<>>])
          /\ upstream' = Append(upstream,
               [req |-> Len(handlers) + 1, messages |-> Scaffold(body)])
          /\ UNCHANGED alive
  /\ UNCHANGED <<zone, clientVars, promptVars>>

\* The upstream call of handler h settles: the rest of the handler runs.
UpstreamSettles(h, u) ==
  /\ alive
  /\ h \in 1..Len(handlers)
  /\ handlers[h].state = "awaiting"
  /\ LET r == IF u.kind = "rejected" THEN Catch(u.message)
              ELSE IF CompletionThrows(u) THEN Catch(ChoicesError)
              ELSE Success(CompletionText(u))
     IN /\ handlers' = [handlers EXCEPT ![h].state = "done",
                                        ![h].settled = u,
                                        ![h].responses = @ \o r.sent]
        /\ alive' = r.running
  /\ UNCHANGED <<upstream, zone, clientVars, promptVars>>

ClientInit ==
  /\ messages = initialMessages
  /\ inputValue = <<>>
  /\ isTyping = FALSE
  /\ language = <<"English">>
  /\ attachedFiles = <<>>
  /\ heap = [a \in {} |-> a]
  /\ readers = {}
  /\ location = NullLocation
  /\ issued = 0
  /\ pending = {}
  /\ lastOp = Other

ServerIdle == handlers = <<>> /\ upstream = <<>> /\ alive = TRUE /\ zone = 0
PromptIdle == pIn = [location |-> NullLocation, date |-> NoDate("undefined")] /\ pOut = <<>>

Init == ClientInit /\ ServerIdle /\ PromptIdle

Next ==
  \/ \E v \in InputTexts : TypeInput(v)
  \/ \E l \in Languages : SetLanguage(l)
  \/ \E p \in Positions : GeoSuccess(p)
  \/ \E fs \in FileLists : HandleFileSelect(fs)
  \/ \E a \in readers : ReaderOnload(a)
  \/ \E i \in 1..Len(attachedFiles) : RemoveAttachment(i)
  \/ SendButton
  \/ EnterKey
  \/ \E q \in SUGGESTED_QUESTIONS : SuggestedQuestion(q)
  \/ \E r \in pending, o \in Outcomes : Resolve(r, o)

Spec == Init /\ [][Next]_vars

PromptSpecInit == ClientInit /\ handlers = <<>> /\ upstream = <<>> /\ alive = TRUE
                  /\ PromptInit
SpecPrompt == PromptSpecInit /\ [][Compose]_vars

ServerInit ==
  /\ ClientInit /\ PromptIdle
  /\ handlers = <<>> /\ upstream = <<>> /\ alive = TRUE
  /\ zone \in TimeZones
ServerNext ==
  \/ \E body \in Bodies : Receive(body)
  \/ \E h \in 1..MaxReqs, u \in UpstreamResults : UpstreamSettles(h, u)
SpecServer == ServerInit /\ [][ServerNext]_vars

(***************************************************************************)
(* Properties                                                              *)
(***************************************************************************)
\* The tokens of prompt p from position i up to the next line break.
RECURSIVE LineFrom(_, _)
LineFrom(p, i) == IF i > Len(p) \/ p[i] = "\n" THEN <<>>
                  ELSE <<p[i]>> \o LineFrom(p, i + 1)
IndexOf(p, tok) == CHOOSE i \in 1..Len(p) : p[i] = tok /\ \A j \in 1..(i - 1) : p[j] # tok

\* The date field and the location field as they stand in a composed prompt.
DateField(p) == LineFrom(p, IndexOf(p, DateLabel) + 1)
LocationField(p) == LineFrom(p, IndexOf(p, DateLabel) + Len(DateField(p)) + 3)

BothSupplied(loc) == ~loc.isNull /\ loc.lat.def /\ loc.lon.def
BothTruthy(loc) == ~loc.isNull /\ loc.lat.def /\ loc.lat.v # 0
                   /\ loc.lon.def /\ loc.lon.v # 0
CoordinateLine(loc) ==
  LocationLabel \o CoordToString(loc.lat) \o <<", ">> \o CoordToString(loc.lon)

\* C1: at most one outbound /api/chat request is in flight at any time,
\* whatever the user does while the first one is unresolved.
C1_OneRequestInFlight == Cardinality(pending) <= 1

\* C2: every accepted send adds exactly one user Message at once and exactly
\* one bot Message when its request settles: with n exchanges completed and
\* p still in flight the transcript holds 1 + 2n + p Messages, one user
\* Message per send, so 1 + 2n once nothing is in flight.
C2_TwoPerExchange ==
  LET done == issued - Cardinality(pending)
      users == { k \in 1..Len(messages) : ~messages[k].isBot }
  IN /\ Len(messages) = 1 + 2 * done + Cardinality(pending)
     /\ Cardinality(users) = issued
     /\ Cardinality((1..Len(messages)) \ users) = 1 + done

C2_Witness ==
  /\ issued = 2 /\ pending = {} /\ Len(messages) = 5
  /\ \E k \in 1..Len(messages) : messages[k].id = <<"#now", "-error">>
  /\ \E k \in 1..Len(messages) : messages[k].id = <<"#now", "-bot">>

\* C3: a send from the button or the Enter key with empty or whitespace-only
\* text and an empty staging area changes neither the transcript, the input,
\* the staging area nor the composing indicator, and issues no request.
C3_EmptySendIsNoop ==
  [][ (Trim(inputValue) = <<>> /\ attachedFiles = <<>> /\ (EnterKey \/ SendButton))
      => UNCHANGED <<messages, inputValue, attachedFiles, isTyping, issued, pending>>
    ]_vars

C3_Witness ==
  /\ lastOp = [op |-> "enterKey", res |-> "noop"]
  /\ inputValue = <<" ">> /\ attachedFiles = <<>>

\* C4 as stated: with both lat and lon supplied, the composed system prompt
\* contains neither the literal latitude nor the literal longitude.
C4_PromptOmitsCoordinates ==
  (pOut # <<>> /\ BothSupplied(pIn.location))
    => /\ ~Contains(pOut, CoordToString(pIn.location.lat))
       /\ ~Contains(pOut, CoordToString(pIn.location.lon))

\* C4 as amended: with both lat and lon supplied and non-zero the composed
\* system prompt does contain the literal latitude and longitude, in the
\* labeled coordinate line, next to mandate 1 (the privacy rule, which binds
\* the model's reply); in every other case it holds no coordinate line.
C4_PromptCarriesCoordinates ==
  pOut # <<>> =>
    /\ Contains(pOut, <<"1", ".", PrivacyRule>>)
    /\ IF BothTruthy(pIn.location)
       THEN /\ Contains(pOut, CoordinateLine(pIn.location))
            /\ Contains(pOut, CoordToString(pIn.location.lat))
            /\ Contains(pOut, CoordToString(pIn.location.lon))
       ELSE ~Contains(pOut, LocationLabel)

C4_Witness ==
  /\ pOut # <<>>
  /\ pIn.location = Loc(Num(285), Num(-157))
  /\ Contains(pOut, <<"2", "8", ".", "5", ", ", "-", "1", "5", ".", "7">>)

\* C5: the date field of the prompt is "Not available" whenever the date is
\* null, absent or cannot be parsed, and for a valid ISO-8601 date it is the
\* long en-US form (weekday, month name, day, year), never "Not available".
C5_DateField ==
  pOut # <<>> =>
    LET f == DateField(pOut)
    IN IF Parseable(pIn.date)
       THEN /\ f # NotAvailable
            /\ Len(f) >= 7
            /\ \E w \in 1..7 : f[1] = WeekdayNames[w]
            /\ f[2] = ", "
            /\ \E m \in 1..12 : f[3] = MonthNames[m]
            /\ f[4] = " "
       ELSE f = NotAvailable

\* C6: the location field of the prompt is "User's location is not
\* available." whenever location is null or a coordinate is missing or 0,
\* and the labeled coordinate line whenever both coordinates are truthy.
C6_LocationField ==
  pOut # <<>> =>
    LocationField(pOut) = IF BothTruthy(pIn.location)
                          THEN CoordinateLine(pIn.location)
                          ELSE LocationNotAvailable

C6_Witness ==
  /\ pOut # <<>>
  /\ pIn.location = Loc(Num(0), Num(285))
  /\ LocationField(pOut) = LocationNotAvailable

\* C7: the message list of every upstream call has exactly 4 entries, in the
\* order system (the composed prompt), user (language declaration),
\* assistant (acknowledgment in that language), user (that request's
\* message), whatever was handled before or is being handled meanwhile.
C7_FourEntryScaffold ==
  \A c \in 1..Len(upstream) :
    LET m == upstream[c].messages
        b == handlers[upstream[c].req].body
    IN /\ Len(m) = 4
       /\ <<m[1].role, m[2].role, m[3].role, m[4].role>>
            = <<"system", "user", "assistant", "user">>
       /\ Contains(m[1].content, <<DateLabel>>)
       /\ m[2].content = <<"I am an Indian Farmer. My preferred language is: ">>
                         \o (IF b.language = JsUndefined THEN <<"undefined">>
                             ELSE b.language) \o <<".">>
       /\ m[3].content = <<"Namaste! I am ready to help you in ">>
                         \o (IF b.language = JsUndefined THEN <<"undefined">>
                             ELSE b.language) \o <<".">>
       /\ m[4].content = b.message

C7_Witness ==
  /\ Len(upstream) = 2
  /\ handlers[1].state = "awaiting"
  /\ upstream[1].messages[4] # upstream[2].messages[4]

\* C8: every request that the handler has finished got exactly one response
\* (none while its upstream call is outstanding): 200 with { response } if
\* the upstream call returned, 500 with the fixed error text and the thrown
\* error's message if something threw; and the server is still running.
C8_OneResponse ==
  /\ alive
  /\ \A h \in 1..Len(handlers) :
       LET r == handlers[h].responses
           u == handlers[h].settled
       IN IF handlers[h].state = "awaiting" THEN r = <<>>
          ELSE /\ Len(r) = 1
               /\ IF u.kind = "resolved" /\ u.choices # "undefined"
                  THEN /\ r[1].status = 200
                       /\ r[1].response = IF u.content # <<>> THEN u.content
                                          ELSE <<"No response generated">>
                  ELSE /\ r[1].status = 500
                       /\ r[1].error = <<"Failed to get response from AI">>
                       /\ r[1].details # <<>>
                       /\ u.kind = "rejected" => r[1].details = u.message

C8_Witness ==
  /\ Len(handlers) = 2
  /\ handlers[1].state = "done" /\ handlers[1].settled.kind = "rejected"
  /\ handlers[1].responses[1].details = <<"quota exceeded">>
  /\ handlers[2].state = "done" /\ handlers[2].responses[1].status = 200

\* C9: when a request fails (network error, non-success status, unreadable
\* body) the client appends exactly one bot Message carrying the fixed
\* fallback text, clears the composing indicator, and issues no request.
C9_FailureFallback ==
  [][ \A r \in pending \ pending', o \in { x \in Outcomes : x.kind \in FailureKinds } :
        Resolve(r, o)
          => /\ messages' = Append(messages,
                  [id |-> <<"#now", "-error">>, text |-> FallbackText,
                   isBot |-> TRUE, attachments |-> <<>>])
             /\ isTyping' = FALSE
             /\ issued' = issued
             /\ pending' = pending \ {r}
    ]_vars

C9_Witness ==
  /\ issued = 1 /\ pending = {}
  /\ messages[Len(messages)].id = <<"#now", "-error">>
  /\ messages[Len(messages)].text = FallbackText
  /\ ~isTyping

\* C10: the transcript is append-only: each step leaves the transcript as it
\* was rendered, attachments and their previews included, as a prefix of the
\* new one.
C10_AppendOnly == [][IsPrefix(Transcript, Transcript')]_vars

\* The request issued by a step that issues one, and the user Message that
\* step appended.
NewRequest == CHOOSE r \in pending' : r.id = issued'
NewUserMessage == messages'[Len(messages')]

\* The names of the attachments staged[i..], in order, separated by ", ".
RECURSIVE NamesFrom(_, _)
NamesFrom(staged, i) ==
  IF i > Len(staged) THEN <<>>
  ELSE heap[staged[i]].file.name
       \o (IF i < Len(staged) THEN <<", ">> ELSE <<>>)
       \o NamesFrom(staged, i + 1)

\* C11: the message of an outbound request is the trimmed text, followed,
\* when attachments are staged, by a line break and "[Attached files: ...]"
\* naming exactly the staged files in staging order (the bracket alone when
\* the text is empty); with nothing staged it is the trimmed text. The body
\* has the fields message, language, location and date and no file content.
C11_OutboundMessage ==
  [][ issued' # issued =>
        LET b == NewRequest.body
            t == NewUserMessage.text
            bracket == <<"[Attached files: ">> \o NamesFrom(attachedFiles, 1) \o <<"]">>
        IN /\ t \in { Trim(inputValue) } \cup SUGGESTED_QUESTIONS
           /\ b.message = IF attachedFiles = <<>> THEN t
                          ELSE IF t = <<>> THEN bracket
                          ELSE t \o <<"\n">> \o bracket
           /\ DOMAIN b = {"message", "language", "location", "date"}
           /\ b.language = language /\ b.location = location
           /\ \A f \in Files : ~Contains(b.message, <<f.data>>)
    ]_vars

C11_Witness ==
  \E r \in pending :
    r.body.message = <<"[Attached files: ", "soil.pdf", ", ", "leaf.png", "]">>

\* C12: a send that goes ahead puts exactly the staged attachments, in
\* order, into the new user Message and leaves the staging area and the
\* input empty; no other step adds an attachment to a Message; an attachment
\* removed from the staging area is in no Message; and no attachment is in
\* two Messages, twice in one, or both staged and sent.
C12_AttachmentsMoved ==
  /\ [](/\ \A k \in 1..Len(messages) :
             LET a == messages[k].attachments
             IN /\ \A i, j \in 1..Len(a) : a[i] = a[j] => i = j
                /\ SeqRefs(a) \cap SeqRefs(attachedFiles) = {}
                /\ \A l \in 1..Len(messages) :
                     l # k => SeqRefs(a) \cap SeqRefs(messages[l].attachments) = {})
  /\ [][ /\ issued' # issued =>
              /\ NewUserMessage.attachments = attachedFiles
              /\ ~NewUserMessage.isBot
              /\ Len(messages') = Len(messages) + 1
              /\ attachedFiles' = <<>>
              /\ inputValue' = <<>>
         /\ issued' = issued =>
              /\ MessageRefs(messages') = MessageRefs(messages)
              /\ \A a \in SeqRefs(attachedFiles) \ SeqRefs(attachedFiles') :
                   a \notin MessageRefs(messages')
       ]_vars

C12_Witness ==
  /\ attachedFiles = <<>>
  /\ \E k \in 1..Len(messages) :
       messages[k].attachments = << <<"soil.pdf">> >>
  /\ <<"leaf.png">> \in readers
  /\ <<"leaf.png">> \notin MessageRefs(messages)

\* C13: the composing indicator is true in every state with an unresolved
\* request and false in every state without one.
C13_TypingWhileInFlight == isTyping <=> pending # {}

====
